---- MODULE Spec2Model ----
(***************************************************************************)
(* fidelius: GPG encrypted secrets paired with their plaintext by name.    *)
(*                                                                         *)
(* A file or directory name is a sequence of dot-separated segments        *)
(* ("a.encrypted.json.asc" is <<"a","encrypted","json","asc">>), segments  *)
(* are non-empty alphanumeric strings.  A resolved path is the sequence of *)
(* names from the root directory; a pathlib.Path as typed by the user or   *)
(* produced by glob is a record [abs, parts] whose parts may contain "..". *)
(* There are no symbolic links, so resolve() is: make absolute, fold "..". *)
(***************************************************************************)
EXTENDS Integers, Sequences, FiniteSets, TLC

VARIABLES files, dirs, data, pc, runs, scan, secrets, guard, cmd, outcome,
          gpgCalls, listing, prev

vars == <<files, dirs, data, pc, runs, scan, secrets, guard, cmd, outcome,
          gpgCalls, listing, prev>>

-----------------------------------------------------------------------------
(* Bounds of the model.                                                    *)

MaxFiles == 2

MaxRuns == 2

-----------------------------------------------------------------------------
(* Names.                                                                  *)

Enc == "encrypted"

Dec == "decrypted"

DotDot == <<"..">>

dSE == <<"s", "encrypted">>

dS == <<"s">>

dSub == <<"sub">>

fShortAsc == <<"a", "json", "asc">>

fLongAscA == <<"a", "encrypted", "json", "asc">>

fLongGpgA == <<"a", "encrypted", "json", "gpg">>

fLongAscB == <<"b", "encrypted", "json", "asc">>

fLongGpgB == <<"b", "encrypted", "json", "gpg">>

fBadLong == <<"a", "encrypted", "txt">>

fBadShort == <<"a", "txt">>

fNoDot == <<"encrypted", "json", "asc">>

fPlainA == <<"a", "decrypted", "json">>

(* The files a tree is drawn from.                                         *)
Universe ==
    { <<dSE, fShortAsc>>,        \* s.encrypted/a.json.asc
      <<dSE, fLongGpgA>>,        \* s.encrypted/a.encrypted.json.gpg
      <<dSE, dSub, fShortAsc>>,  \* s.encrypted/sub/a.json.asc
      <<dSE, dSE, fShortAsc>>,   \* s.encrypted/s.encrypted/a.json.asc
      <<dSE, fBadShort>>,        \* s.encrypted/a.txt
      <<fLongAscB>>,             \* b.encrypted.json.asc
      <<fLongGpgB>>,             \* b.encrypted.json.gpg
      <<fBadLong>>,              \* a.encrypted.txt
      <<dS, fLongAscA>>,         \* s/a.encrypted.json.asc
      <<dSub, fLongAscB>>,       \* sub/b.encrypted.json.asc
      <<fNoDot>>,                \* encrypted.json.asc
      <<dS, fPlainA>> }          \* s/a.decrypted.json

(* The working directory of the process.                                   *)
Cwd == <<dSub>>

Texts == {"", "t1", "t2"}

-----------------------------------------------------------------------------
(* Orderings: str and pathlib.Path comparison.                             *)

SegOrder == <<"..", "a", "asc", "b", "decrypted", "encrypted", "gpg",
              "json", "s", "sub", "txt">>

Rank(seg) == CHOOSE i \in 1..Len(SegOrder) : SegOrder[i] = seg

(* Lexicographic comparison of two sequences of numbers.                   *)
RECURSIVE LexLess(_, _)
LexLess(x, y) ==
    IF y = <<>> THEN FALSE
    ELSE IF x = <<>> THEN TRUE
    ELSE IF Head(x) # Head(y) THEN Head(x) < Head(y)
    ELSE LexLess(Tail(x), Tail(y))

RECURSIVE Concat(_)
Concat(seqs) == IF seqs = <<>> THEN <<>> ELSE Head(seqs) \o Concat(Tail(seqs))

(* The characters of a name, segment by segment: a segment's rank, then    *)
(* what follows it ('.' inside the name, `last` after the final segment).  *)
NameKey(name, last) ==
    Concat([i \in 1..Len(name) |->
              <<Rank(name[i]), IF i < Len(name) THEN 1 ELSE last>>])

(* str(path): end of string < '.' < '/' < letters and digits.              *)
StrKey(path) ==
    Concat([i \in 1..Len(path) |->
              NameKey(path[i], IF i < Len(path) THEN 2 ELSE 0)])

StrLess(p, q) == LexLess(StrKey(p), StrKey(q))

(* pathlib compares the tuples of parts: a part that ends sorts before a   *)
(* part that continues with '.'.                                           *)
PartsKey(path) == Concat([i \in 1..Len(path) |-> NameKey(path[i], 0)])

PathLess(p, q) == LexLess(PartsKey(p), PartsKey(q))

RECURSIVE SortPaths(_)
SortPaths(S) ==
    IF S = {} THEN <<>>
    ELSE LET m == CHOOSE x \in S : \A y \in S \ {x} : PathLess(x, y)
         IN  <<m>> \o SortPaths(S \ {m})

RECURSIVE SortStr(_)
SortStr(S) ==
    IF S = {} THEN <<>>
    ELSE LET m == CHOOSE x \in S : \A y \in S \ {x} : StrLess(x, y)
         IN  <<m>> \o SortStr(S \ {m})

Range(seq) == {seq[i] : i \in 1..Len(seq)}

-----------------------------------------------------------------------------
(* pathlib.                                                                *)

Last(seq) == seq[Len(seq)]

Front(seq) == SubSeq(seq, 1, Len(seq) - 1)

IsPrefix(d, p) == Len(d) <= Len(p) /\ SubSeq(p, 1, Len(d)) = d

(* Path.suffix of a name: the last segment, "" when there is no dot.       *)
Suffix(name) == IF Len(name) >= 2 THEN Last(name) ELSE ""

(* name.replace('.encrypted', rep): every segment "encrypted" that follows *)
(* a dot; rep is <<>> to remove it, <<"decrypted">> to swap it.            *)
RECURSIVE ReplaceFrom(_, _, _)
ReplaceFrom(name, i, rep) ==
    IF i > Len(name) THEN <<>>
    ELSE (IF i >= 2 /\ name[i] = Enc THEN rep ELSE <<name[i]>>)
         \o ReplaceFrom(name, i + 1, rep)

StrReplace(name, rep) == ReplaceFrom(name, 1, rep)

(* The glob pattern '*.encrypted*' on a name.                              *)
MatchesPattern(name) == \E i \in 2..Len(name) : name[i] = Enc

WithName(p, name) == [p EXCEPT !.parts = Front(p.parts) \o <<name>>]

(* Path.with_suffix(suffix) on a name; suffix is a sequence of segments.   *)
WithSuffix(name, suffix) ==
    IF Len(name) >= 2 THEN Front(name) \o suffix ELSE name \o suffix

(* Path.resolve(): relative paths are taken from the working directory.    *)
RECURSIVE Normalize(_, _)
Normalize(done, rest) ==
    IF rest = <<>> THEN done
    ELSE IF Head(rest) = DotDot
         THEN Normalize(IF done = <<>> THEN <<>> ELSE Front(done), Tail(rest))
         ELSE Normalize(Append(done, Head(rest)), Tail(rest))

Resolve(p) == Normalize(<<>>, (IF p.abs THEN <<>> ELSE Cwd) \o p.parts)

(* Path.relative_to succeeds: a comparison of parts, no file system access.*)
RelativeTo(p, d) == p.abs = d.abs /\ IsPrefix(d.parts, p.parts)

Join(d, rel) == [d EXCEPT !.parts = d.parts \o rel]

-----------------------------------------------------------------------------
(* Fidelius: the path transform.                                           *)

rename_directory(path) == WithName(path, StrReplace(Last(path.parts), <<>>))

(* rename with the marker appended after the extension.                    *)
rename_appends(path) ==
    LET name     == StrReplace(Last(path.parts), <<Dec>>)
        stripped == WithSuffix(name, <<>>)
    IN  IF \E i \in 2..Len(stripped) : stripped[i] = Dec
        THEN WithName(path, stripped)
        ELSE WithName(path, stripped \o <<Dec>>)

rename(path) ==
    LET name     == StrReplace(Last(path.parts), <<Dec>>)
        stripped == WithSuffix(name, <<>>)
        suffix   == IF Len(stripped) >= 2 THEN <<Last(stripped)>> ELSE <<>>
    IN  IF \E i \in 2..Len(stripped) : stripped[i] = Dec
        THEN WithName(path, stripped)
        ELSE WithName(path, WithSuffix(stripped, <<Dec>> \o suffix))

transpose(path, from_dir, to_dir) ==
    Join(to_dir, SubSeq(path.parts, Len(from_dir.parts) + 1, Len(path.parts)))

in_directory(file, directory) == RelativeTo(file, directory)

(* in_directories without the test: nothing counts as contained.           *)
in_directories_never(path, directories) == FALSE

in_directories(path, directories) ==
    \E d \in directories : in_directory(path, d)

-----------------------------------------------------------------------------
(* Fidelius.search: the directory scanner.                                 *)

(* The spellings of the root directory given to --path.                    *)
DirSpellings == { [abs |-> TRUE, parts |-> <<>>],
                  [abs |-> FALSE, parts |-> <<DotDot>>] }

Reverse(seq) == [i \in 1..Len(seq) |-> seq[Len(seq) + 1 - i]]

(* The entries of one directory in the order the operating system lists    *)
(* them: unspecified, here ascending or descending by name.                *)
Listdir(entries, dir, rev) ==
    LET kids == {e \in entries : Len(e) = Len(dir) + 1 /\ IsPrefix(dir, e)}
    IN  IF rev THEN Reverse(SortPaths(kids)) ELSE SortPaths(kids)

(* enc_dir.glob('**/*') filtered by is_file(): the files of the directory, *)
(* then those of each sub-directory, recursively.                          *)
RECURSIVE Walk(_, _, _, _)
Walk(fs, ds, dir, rev) ==
    LET subs == Listdir(ds, dir, rev)
    IN  Listdir(fs, dir, rev)
        \o Concat([i \in 1..Len(subs) |-> Walk(fs, ds, subs[i], rev)])

directories(directory, ds) ==
    SortPaths({d \in ds : d # <<>> /\ MatchesPattern(Last(d))})

glob_files(directory, fs) ==
    SortPaths({f \in fs : MatchesPattern(Last(f))})

Pair(e, d) == [encrypted |-> e, decrypted |-> d]

(* The pairs of one marked directory, in traversal order.                  *)
DirectoryPairs(directory, fs, ds, enc_rel, rev) ==
    LET enc_dir == Join(directory, enc_rel)
        dec_dir == rename_directory(enc_dir)
        found   == Walk(fs, ds, enc_rel, rev)
    IN  [i \in 1..Len(found) |->
           LET enc_path == Join(directory, found[i])
           IN  Pair(enc_path, rename(transpose(enc_path, enc_dir, dec_dir)))]

search(directory, fs, ds, rev) ==
    LET marked == directories(directory, ds)
        mdirs  == {Join(directory, marked[i]) : i \in 1..Len(marked)}
        found  == glob_files(directory, fs)
        kept   == SelectSeq([i \in 1..Len(found) |-> Join(directory, found[i])],
                            LAMBDA f : ~in_directories(f, mdirs))
    IN  [dirPairs  |-> Concat([i \in 1..Len(marked) |->
                         DirectoryPairs(directory, fs, ds, marked[i], rev)]),
         filePairs |-> [i \in 1..Len(kept) |-> Pair(kept[i], rename(kept[i]))]]

-----------------------------------------------------------------------------
(* Secret and SecretKeeper.  A Secret is the pair search constructs: the    *)
(* encrypted path, validated, and the decrypted path.                      *)

(* Secret.__attrs_post_init__: the encrypted suffix is .asc or .gpg.       *)
SecretValid(encrypted) == Suffix(Last(encrypted)) \in {"asc", "gpg"}

armour(secret) == Suffix(Last(secret.encrypted)) = "asc"

(* dict[key] = value: a key keeps the position of its first insertion.     *)
DictPut(dict, s) ==
    IF \E i \in 1..Len(dict) : dict[i].encrypted = s.encrypted
    THEN [i \in 1..Len(dict) |->
            IF dict[i].encrypted = s.encrypted THEN s ELSE dict[i]]
    ELSE Append(dict, s)

(* The comprehension with a Secret that fails validation left out.         *)
RECURSIVE BuildSecrets_skipping(_, _)
BuildSecrets_skipping(pairs, dict) ==
    IF pairs = <<>> THEN [raised |-> FALSE, at |-> <<>>, secrets |-> dict]
    ELSE LET e == Resolve(Head(pairs).encrypted)
             d == Resolve(Head(pairs).decrypted)
         IN  BuildSecrets_skipping(Tail(pairs),
               IF SecretValid(e) THEN DictPut(dict, Pair(e, d)) ELSE dict)

(* The dict comprehension of search: one Secret per pair, in order; the    *)
(* first Secret that fails validation raises.                              *)
RECURSIVE BuildSecrets(_, _)
BuildSecrets(pairs, dict) ==
    IF pairs = <<>> THEN [raised |-> FALSE, at |-> <<>>, secrets |-> dict]
    ELSE LET e == Resolve(Head(pairs).encrypted)
             d == Resolve(Head(pairs).decrypted)
         IN  IF ~SecretValid(e)
             THEN [raised |-> TRUE, at |-> e, secrets |-> <<>>]
             ELSE BuildSecrets(Tail(pairs), DictPut(dict, Pair(e, d)))

(* The guard raising on the first path that is not excluded.               *)
run_gitignore_check_first(dict, excluded) ==
    LET decrypted == {dict[i].decrypted : i \in 1..Len(dict)}
        included  == decrypted \ excluded
    IN  [raised |-> included # {},
         paths |-> IF included = {} THEN <<>> ELSE <<SortStr(included)[1]>>]

(* SecretKeeper.run_gitignore_check: excluded is what git reports ignored. *)
run_gitignore_check(dict, excluded) ==
    LET decrypted == {dict[i].decrypted : i \in 1..Len(dict)}
        included  == decrypted \ excluded
    IN  [raised |-> included # {}, paths |-> SortStr(included)]

(* SecretKeeper.__getitem__: None stands for KeyError.                     *)
None == [encrypted |-> <<>>, decrypted |-> <<>>]

(* __getitem__ comparing the path as typed, without resolve().             *)
getitem_unresolved(dict, item) ==
    LET key == item.parts
    IN  IF \E i \in 1..Len(dict) : dict[i].encrypted = key
        THEN dict[CHOOSE i \in 1..Len(dict) : dict[i].encrypted = key]
        ELSE None

getitem(dict, item) ==
    LET key == Resolve(item)
    IN  IF \E i \in 1..Len(dict) : dict[i].encrypted = key
        THEN dict[CHOOSE i \in 1..Len(dict) : dict[i].encrypted = key]
        ELSE None

(* __iter__ without sorted(): the order of the dict.                       *)
iter_unsorted(dict) == dict

(* SecretKeeper.__iter__: sorted by encrypted path.                        *)
iter(dict) ==
    LET order == SortPaths({dict[i].encrypted : i \in 1..Len(dict)})
    IN  [i \in 1..Len(order) |->
           dict[CHOOSE j \in 1..Len(dict) : dict[j].encrypted = order[i]]]

-----------------------------------------------------------------------------
(* One command invocation: the group callback, then the subcommand.        *)

NoScan == [dirPairs |-> <<>>, filePairs |-> <<>>]

(* The guard's record: how often it ran, what it raised, the decrypted     *)
(* paths P it asked about and those of them E reported as ignored.         *)
NoGuard == [runs |-> 0, errors |-> <<>>, P |-> {}, E |-> {}]

NoCmd == [name |-> "", args |-> <<>>, text |-> "", out |-> <<>>]

NoOutcome == [kind |-> "none", exc |-> "", msg |-> "", paths |-> <<>>]

Ok == [kind |-> "ok", exc |-> "", msg |-> "", paths |-> <<>>]

Raised(exc, msg, paths) ==
    [kind |-> "raised", exc |-> exc, msg |-> msg, paths |-> paths]

MsgValidation == "I don't know how to decrypt"

MsgIgnore == "Encrypted file(s) not excluded by .gitignore"

MsgEmpty == "File is empty"

MsgNoChanges == "No changes were made to the file"

(* What the previous invocation was, kept for the statements about two     *)
(* invocations in a row: a listing, or a decrypt of everything that ended  *)
(* without error.                                                          *)
NoPrev == [name |-> "", files |-> {}, dirs |-> {}, listing |-> <<>>, pairs |-> {}]

Ancestors(f) == {SubSeq(f, 1, n) : n \in 0..(Len(f) - 1)}

Cipher(text) == [kind |-> "cipher", text |-> text]

Plain(text) == [kind |-> "plain", text |-> text]

InitialContent(f) ==
    IF Suffix(Last(f)) \in {"asc", "gpg"} THEN Cipher("t1") ELSE Plain("t2")

(* A path git may report as ignored although no secret decrypts to it.     *)
Stray == <<dS, <<"b", "decrypted", "json">>>>

Init ==
    /\ files \in {t \in SUBSET Universe : Cardinality(t) <= MaxFiles}
    /\ dirs = {<<>>, Cwd} \cup UNION {Ancestors(f) : f \in files}
    /\ data = [f \in files |-> InitialContent(f)]
    /\ pc = "idle"
    /\ runs = 0
    /\ scan = NoScan
    /\ secrets = <<>>
    /\ guard = NoGuard
    /\ cmd = NoCmd
    /\ outcome = NoOutcome
    /\ gpgCalls = <<>>
    /\ listing = <<>>
    /\ prev = NoPrev

(* The guard's exception swallowed: the subcommand runs all the same.      *)
AfterGuard_continues(raised) == "ready"

(* An exception raised by the group callback ends the invocation before    *)
(* the subcommand is called.                                               *)
AfterGuard(raised) == IF raised THEN "failed" ELSE "ready"

(* cli.main: cast the registry (its constructor runs the guard), then run  *)
(* the guard once more.                                                    *)
Main ==
    /\ pc = "idle"
    /\ runs < MaxRuns
    /\ runs' = runs + 1
    /\ \E directory \in DirSpellings, rev \in BOOLEAN :
       \E sc \in {search(directory, files, dirs, rev)} :
       \E built \in {BuildSecrets(sc.dirPairs \o sc.filePairs, <<>>)} :
       \E P \in {{built.secrets[i].decrypted : i \in 1..Len(built.secrets)}} :
         /\ scan' = sc
         /\ IF built.raised
            THEN /\ secrets' = <<>>
                 /\ guard' = NoGuard
                 /\ outcome' = Raised("FideliusException", MsgValidation, <<built.at>>)
                 /\ pc' = "failed"
            ELSE \E E \in SUBSET (P \cup {Stray}) :
                 \E first \in {run_gitignore_check(built.secrets, E)} :
                 \E again \in {IF first.raised THEN first
                               ELSE run_gitignore_check(built.secrets, E)} :
                   /\ guard' = [runs |-> IF first.raised THEN 1 ELSE 2,
                                errors |-> IF again.raised THEN <<again.paths>>
                                           ELSE <<>>,
                                P |-> P, E |-> E \cap P]
                   /\ pc' = AfterGuard(again.raised)
                   /\ secrets' = IF pc' = "failed" THEN <<>> ELSE built.secrets
                   /\ outcome' = IF again.raised
                                 THEN Raised("FideliusException", MsgIgnore, again.paths)
                                 ELSE NoOutcome
    /\ UNCHANGED <<files, dirs, data, cmd, gpgCalls, listing, prev>>

-----------------------------------------------------------------------------
(* The crypto gateway.  gpg is an external program: a ciphertext is the    *)
(* text it decrypts to, tagged; a call fails when gpg cannot read its      *)
(* input or cannot write its output.                                       *)

Call(op, path, output, text, arm) ==
    [op |-> op, path |-> path, output |-> output, text |-> text, armour |-> arm]

Exists(st, p) == p \in st.files \/ p \in st.dirs

Store(st, p, content) ==
    [st EXCEPT !.files = st.files \cup {p},
               !.data = [f \in st.files \cup {p} |->
                           IF f = p THEN content ELSE st.data[f]]]

Remove(st, p) ==
    [st EXCEPT !.files = st.files \ {p},
               !.data = [f \in st.files \ {p} |-> st.data[f]]]

Readable(st, p) == p \in st.files /\ st.data[p].kind = "cipher"

Writable(st, p) == Front(p) \in st.dirs /\ p \notin st.dirs

(* GPG.decrypt: make the parent directory when it is missing (a plain      *)
(* mkdir(), its own parent must exist), then gpg --output --decrypt.       *)
gpg_decrypt(st, encrypted, decrypted, arm) ==
    LET parent == Front(decrypted)
        made   == IF Exists(st, parent) THEN st
                  ELSE IF Front(parent) \in st.dirs
                       THEN [st EXCEPT !.dirs = st.dirs \cup {parent}]
                       ELSE [st EXCEPT !.exc = "FileNotFoundError"]
        ran    == [made EXCEPT !.calls =
                     Append(made.calls, Call("decrypt", encrypted, decrypted, "", arm))]
    IN  IF made.exc # "" THEN made
        ELSE IF Readable(ran, encrypted) /\ Writable(ran, decrypted)
             THEN Store(ran, decrypted, [kind |-> "plain", text |-> ran.data[encrypted].text])
             ELSE [ran EXCEPT !.exc = "CalledProcessError"]

(* GPG.contents: gpg --decrypt to standard output.                         *)
gpg_contents(st, path, arm) ==
    LET ran == [st EXCEPT !.calls = Append(st.calls, Call("contents", path, <<>>, "", arm))]
    IN  IF Readable(ran, path) THEN ran ELSE [ran EXCEPT !.exc = "CalledProcessError"]

(* GPG.encrypt_text: gpg --output path --encrypt, text on standard input.  *)
gpg_encrypt_text(st, path, text, arm) ==
    LET ran == [st EXCEPT !.calls = Append(st.calls, Call("encrypt_text", path, path, text, arm))]
    IN  IF Writable(ran, path)
        THEN Store(ran, path, [kind |-> "cipher", text |-> text])
        ELSE [ran EXCEPT !.exc = "CalledProcessError"]

(* GPG.encrypt_file: gpg --output output --encrypt file.                   *)
gpg_encrypt_file(st, output, encrypt, arm) ==
    LET ran == [st EXCEPT !.calls =
                  Append(st.calls, Call("encrypt_file", encrypt, output, "", arm))]
    IN  IF encrypt \in ran.files /\ Writable(ran, output)
        THEN Store(ran, output, [kind |-> "cipher", text |-> ran.data[encrypt].text])
        ELSE [ran EXCEPT !.exc = "CalledProcessError"]

-----------------------------------------------------------------------------
(* The subcommands.                                                        *)

Here == [files |-> files, dirs |-> dirs, data |-> data, calls |-> <<>>, exc |-> ""]

Abs(t) == [abs |-> TRUE, parts |-> t]

(* The same file, spelled relative to the working directory.               *)
Rel(t) == [abs |-> FALSE,
           parts |-> IF IsPrefix(Cwd, t) /\ Len(t) > Len(Cwd)
                     THEN SubSeq(t, Len(Cwd) + 1, Len(t))
                     ELSE [i \in 1..Len(Cwd) |-> DotDot] \o t]

Spellings(targets) == {Abs(t) : t \in targets} \cup {Rel(t) : t \in targets}

Unmanaged == <<fShortAsc>>

Keys == {secrets[i].encrypted : i \in 1..Len(secrets)}

Plaintexts == {secrets[i].decrypted : i \in 1..Len(secrets)}

Nothing == "<None>"

(* The end of a subcommand: the file system it leaves, what it called.     *)
Finish(name, args, text, out, st, result) ==
    /\ pc' = "done"
    /\ cmd' = [name |-> name, args |-> args, text |-> text, out |-> out]
    /\ files' = st.files
    /\ dirs' = st.dirs
    /\ data' = st.data
    /\ gpgCalls' = st.calls
    /\ outcome' = result
    /\ scan' = NoScan
    /\ guard' = NoGuard
    /\ UNCHANGED <<runs, secrets, prev>>

(* cli.ls                                                                  *)
Ls ==
    /\ pc = "ready"
    /\ listing' = iter(secrets)
    /\ Finish("ls", <<>>, "", <<>>, Here, Ok)

RECURSIVE DecryptEach(_, _)
DecryptEach(st, selected) ==
    IF selected = <<>> \/ st.exc # "" THEN st
    ELSE DecryptEach(gpg_decrypt(st, Head(selected).encrypted,
                                 Head(selected).decrypted, armour(Head(selected))),
                     Tail(selected))

(* cli.decrypt: the secrets named, or all of them in the order of the      *)
(* registry's dict, which is the order of the scan.                        *)
Decrypt ==
    /\ pc = "ready"
    /\ \E args \in {<<>>} \cup {<<p>> : p \in Spellings(Keys \cup {Unmanaged})} :
       \E selected \in {IF args = <<>> THEN secrets
                        ELSE [i \in 1..Len(args) |-> getitem(secrets, args[i])]} :
         IF \E i \in 1..Len(selected) : selected[i] = None
         THEN Finish("decrypt", args, "", <<>>, Here,
                     Raised("KeyError", "", <<Resolve(args[1])>>))
         ELSE \E st \in {DecryptEach(Here, selected)} :
                Finish("decrypt", args, "", <<>>, st,
                       IF st.exc = "" THEN Ok ELSE Raised(st.exc, "", <<>>))
    /\ UNCHANGED listing

RECURSIVE CleanEach(_, _)
CleanEach(st, selected) ==
    IF selected = <<>> \/ st.exc # "" THEN st
    ELSE LET p == Head(selected).decrypted
         IN  CleanEach(IF ~Exists(st, p) THEN st
                       ELSE IF p \in st.dirs
                            THEN [st EXCEPT !.exc = "IsADirectoryError"]
                            ELSE Remove(st, p),
                       Tail(selected))

(* cli.clean                                                               *)
Clean ==
    /\ pc = "ready"
    /\ \E st \in {CleanEach(Here, iter(secrets))} :
         Finish("clean", <<>>, "", <<>>, st,
                IF st.exc = "" THEN Ok ELSE Raised(st.exc, "", <<>>))
    /\ UNCHANGED listing

(* cli.cat, with one path.                                                 *)
Cat ==
    /\ pc = "ready"
    /\ \E p \in Spellings(Keys \cup Plaintexts \cup {Unmanaged}) :
       \E secret \in {getitem(secrets, p)} :
         IF secret = None
         THEN Finish("cat", <<p>>, "", <<>>, Here,
                     Raised("KeyError", "", <<Resolve(p)>>))
         ELSE \E st \in {gpg_contents(Here, secret.encrypted, armour(secret))} :
                IF st.exc # ""
                THEN Finish("cat", <<p>>, "", <<>>, st, Raised(st.exc, "", <<>>))
                ELSE Finish("cat", <<p>>, "", <<secret, st.data[secret.encrypted].text>>,
                            st, Ok)
    /\ UNCHANGED listing

(* cli.edit without the comparison with the old text.                      *)
edit_write_unchecked(read, secret, old_text, new_text) ==
    IF new_text = Nothing \/ new_text = ""
    THEN [st |-> read, result |-> Raised("ClickException", MsgEmpty, <<>>)]
    ELSE LET st == gpg_encrypt_text(read, secret.encrypted, new_text, armour(secret))
         IN  [st |-> st,
              result |-> IF st.exc = "" THEN Ok ELSE Raised(st.exc, "", <<>>)]

(* cli.edit after the editor has returned: reject an empty or unchanged    *)
(* text, else encrypt the new text over the secret.                        *)
edit_write(read, secret, old_text, new_text) ==
    IF new_text = Nothing \/ new_text = ""
    THEN [st |-> read, result |-> Raised("ClickException", MsgEmpty, <<>>)]
    ELSE IF new_text = old_text
    THEN [st |-> read, result |-> Raised("ClickException", MsgNoChanges, <<>>)]
    ELSE LET st == gpg_encrypt_text(read, secret.encrypted, new_text, armour(secret))
         IN  [st |-> st,
              result |-> IF st.exc = "" THEN Ok ELSE Raised(st.exc, "", <<>>)]

(* cli.edit: new_text is what the editor returns.                          *)
Edit ==
    /\ pc = "ready"
    /\ \E p \in Spellings(Keys \cup {Unmanaged}), new_text \in Texts \cup {Nothing} :
       \E secret \in {getitem(secrets, p)} :
         IF secret = None
         THEN Finish("edit", <<p>>, new_text, <<>>, Here,
                     Raised("KeyError", "", <<Resolve(p)>>))
         ELSE \E read \in {gpg_contents(Here, secret.encrypted, armour(secret))} :
              IF read.exc # ""
              THEN Finish("edit", <<p>>, new_text, <<>>, read, Raised(read.exc, "", <<>>))
              ELSE \E old_text \in {read.data[secret.encrypted].text} :
                   \E end \in {edit_write(read, secret, old_text, new_text)} :
                     Finish("edit", <<p>>, new_text, <<secret, old_text>>,
                            end.st, end.result)
    /\ UNCHANGED listing

(* Secret.plaintext: the text of the decrypted file.                       *)
secret_plaintext(st, secret) == st.data[secret.decrypted].text

(* Secret.re_encrypt: the gateway's encrypt_file, from the decrypted file  *)
(* to the encrypted one.                                                   *)
secret_re_encrypt(st, secret) ==
    gpg_encrypt_file(st, secret.encrypted, secret.decrypted, armour(secret))

NoRun == [st |-> Here, out |-> <<>>, at |-> <<>>]

(* cli.encrypt with 'break' for 'continue' when the plaintext is missing.  *)
RECURSIVE EncryptEach_stops(_, _, _, _)
EncryptEach_stops(run, dict, args, force) ==
    IF args = <<>> \/ run.st.exc # "" THEN run
    ELSE IF getitem(dict, Head(args)) # None
            /\ ~Exists(run.st, getitem(dict, Head(args)).decrypted)
    THEN [run EXCEPT !.out = Append(@, "missing")]
    ELSE \* as cli.encrypt does
    LET secret == getitem(dict, Head(args))
        st     == run.st
        read   == gpg_contents(st, secret.encrypted, armour(secret))
        again  == IF force THEN secret_re_encrypt(st, secret)
                  ELSE secret_re_encrypt(read, secret)
    IN  IF secret = None
        THEN [run EXCEPT !.st.exc = "KeyError", !.at = <<Resolve(Head(args))>>]
        ELSE IF force \/ (secret.decrypted \in st.files /\ read.exc = ""
                          /\ secret_plaintext(st, secret) # read.data[secret.encrypted].text)
        THEN EncryptEach_stops([run EXCEPT !.st = again,
                                          !.out = IF again.exc = "" THEN Append(@, "encrypted")
                                                  ELSE @],
                               dict, Tail(args), force)
        ELSE IF secret.decrypted \notin st.files
        THEN [run EXCEPT !.st.exc = "IsADirectoryError"]
        ELSE EncryptEach_stops([run EXCEPT !.st = read,
                                          !.out = IF read.exc = "" THEN Append(@, "skipped")
                                                  ELSE @],
                               dict, Tail(args), force)

(* cli.encrypt, the loop over its path arguments: what it reports for each *)
(* of them.                                                                *)
RECURSIVE EncryptEach(_, _, _, _)
EncryptEach(run, dict, args, force) ==
    IF args = <<>> \/ run.st.exc # "" THEN run
    ELSE
    LET secret == getitem(dict, Head(args))
        st     == run.st
        read   == gpg_contents(st, secret.encrypted, armour(secret))
        again  == IF force THEN secret_re_encrypt(st, secret)
                  ELSE secret_re_encrypt(read, secret)
    IN  IF secret = None
        THEN [run EXCEPT !.st.exc = "KeyError", !.at = <<Resolve(Head(args))>>]
        ELSE IF ~Exists(st, secret.decrypted)
        THEN EncryptEach([run EXCEPT !.out = Append(@, "missing")],
                         dict, Tail(args), force)
        ELSE IF force \/ (secret.decrypted \in st.files /\ read.exc = ""
                          /\ secret_plaintext(st, secret) # read.data[secret.encrypted].text)
        THEN EncryptEach([run EXCEPT !.st = again,
                                    !.out = IF again.exc = "" THEN Append(@, "encrypted")
                                            ELSE @],
                         dict, Tail(args), force)
        ELSE IF secret.decrypted \notin st.files
        THEN [run EXCEPT !.st.exc = "IsADirectoryError"]
        ELSE EncryptEach([run EXCEPT !.st = read,
                                    !.out = IF read.exc = "" THEN Append(@, "skipped")
                                            ELSE @],
                         dict, Tail(args), force)

Force == "--force"

NoForce == "--no-force"

(* cli.encrypt: one path, or two paths of the registry.                    *)
Encrypt ==
    /\ pc = "ready"
    /\ \E args \in {<<p>> : p \in Spellings(Keys \cup {Unmanaged})}
                   \cup {<<Abs(k), Abs(l)>> : k \in Keys, l \in Keys},
          force \in BOOLEAN :
       \E run \in {EncryptEach(NoRun, secrets, args, force)} :
         Finish("encrypt", args, IF force THEN Force ELSE NoForce, run.out, run.st,
                IF run.st.exc = "" THEN Ok ELSE Raised(run.st.exc, "", run.at))
    /\ UNCHANGED listing

(* Path.suffixes and Path.suffix: the extensions of a name, each a string  *)
(* that starts with its dot.                                               *)
Suffixes(name) == [i \in 1..(Len(name) - 1) |-> <<".", name[i + 1]>>]

DotSuffix(name) == IF Len(name) >= 2 THEN <<".", Last(name)>> ELSE <<>>

MsgFileName == "File names should be in the form '<name>.<ext>.<asc|gpg>'"

MsgMarker == "File names should be in the form '<name>.encrypted.<ext>[.<asc|gpg>]'"

MsgNewEmpty == "New file is empty"

(* The paths 'create' is asked for: beneath a marked directory, a marked   *)
(* name, a name without the marker, a name with one extension.             *)
CreateTargets == { Abs(<<dSE, <<"b", "json", "asc">>>>),
                   Rel(<<dSE, <<"b", "json", "asc">>>>),
                   Abs(<< <<"a", "encrypted", "json", "gpg">> >>),
                   Abs(<< <<"b", "json", "asc">> >>),
                   Abs(<< <<"b", "asc">> >>) }

(* cli.create after its arguments are parsed.  no_plaintext stands for the *)
(* argument left out; new_text is what the editor returns.                 *)
create(st, path, plaintext, new_text) ==
    IF Len(Suffixes(Last(path.parts))) < 2
       \/ DotSuffix(Last(path.parts)) \notin {<<"asc">>, <<"gpg">>}
    THEN [st |-> st, result |-> Raised("ClickException", MsgFileName, <<>>)]
    ELSE IF ~\E i \in 1..Len(path.parts) :
               \E j \in 1..Len(path.parts[i]) : path.parts[i][j] = Enc
    THEN [st |-> st, result |-> Raised("ClickException", MsgMarker, <<>>)]
    ELSE IF plaintext # <<>>
    THEN LET end == gpg_encrypt_file(st, Resolve(path), plaintext,
                                     DotSuffix(Last(path.parts)) = <<".", "asc">>)
         IN  [st |-> end,
              result |-> IF end.exc = "" THEN Ok ELSE Raised(end.exc, "", <<>>)]
    ELSE IF new_text = Nothing \/ new_text = ""
    THEN [st |-> st, result |-> Raised("ClickException", MsgNewEmpty, <<>>)]
    ELSE LET end == gpg_encrypt_text(st, Resolve(path), new_text,
                                     DotSuffix(Last(path.parts)) = <<".", "asc">>)
         IN  [st |-> end,
              result |-> IF end.exc = "" THEN Ok ELSE Raised(end.exc, "", <<>>)]

(* cli.create: a path, and either an existing file to encrypt or none.     *)
Create ==
    /\ pc = "ready"
    /\ \E path \in CreateTargets, plaintext \in {<<>>} \cup files :
       \E new_text \in IF plaintext = <<>> THEN {Nothing, "", "t1"} ELSE {Nothing} :
       \E end \in {create(Here, path, plaintext, new_text)} :
         Finish("create", <<path>>, new_text, <<plaintext>>, end.st, end.result)
    /\ UNCHANGED listing

(* The process exits: the registry is discarded.                           *)
Exit ==
    /\ pc \in {"failed", "done"}
    /\ pc' = "idle"
    /\ scan' = NoScan
    /\ secrets' = <<>>
    /\ guard' = NoGuard
    /\ cmd' = NoCmd
    /\ outcome' = NoOutcome
    /\ gpgCalls' = <<>>
    /\ listing' = <<>>
    /\ prev' = IF cmd.name = "ls" \/ (cmd.name = "decrypt" /\ cmd.args = <<>>
                                                             /\ outcome = Ok)
               THEN [name |-> cmd.name, files |-> files, dirs |-> dirs,
                     listing |-> listing,
                     pairs |-> IF cmd.name = "decrypt" THEN Range(secrets) ELSE {}]
               ELSE NoPrev
    /\ UNCHANGED <<files, dirs, data, runs>>

Next == Main \/ Ls \/ Decrypt \/ Clean \/ Cat \/ Edit \/ Encrypt \/ Create \/ Exit

Spec == Init /\ [][Next]_vars

-----------------------------------------------------------------------------
(* The naming convention, as the documentation states it.                  *)

Markers == {Enc, Dec}

Formats == {"asc", "gpg"}

(* N.encrypted.E.X                                                         *)
LongForm(name) ==
    /\ Len(name) = 4
    /\ name[2] = Enc
    /\ name[4] \in Formats
    /\ name[1] \notin Markers /\ name[3] \notin Markers

(* N.E.X                                                                   *)
ShortForm(name) ==
    /\ Len(name) = 3
    /\ name[3] \in Formats
    /\ name[1] \notin Markers /\ name[2] \notin Markers

(* N.decrypted.E                                                           *)
PlainName(name) ==
    IF Len(name) = 4 THEN <<name[1], Dec, name[3]>> ELSE <<name[1], Dec, name[2]>>

IsMarked(name) == \E i \in 2..Len(name) : name[i] = Enc

(* The positions of the marked directories a file lies beneath.            *)
MarkedAbove(f) == {n \in 1..(Len(f) - 1) : IsMarked(f[n])}

(* D.encrypted/S/name -> D/S/N.decrypted.E, D.encrypted being f[n].        *)
UnderDirectory(f, n) ==
    SubSeq(f, 1, n - 1) \o << <<f[n][1]>> >> \o SubSeq(f, n + 1, Len(f) - 1)
    \o <<PlainName(Last(f))>>

(* D/N.encrypted.E.X -> D/N.decrypted.E                                    *)
Standalone(f) == Front(f) \o <<PlainName(Last(f))>>

Scanned == pc \in {"ready", "failed"}

AllPairs == scan.dirPairs \o scan.filePairs

ResolvedPairs ==
    {Pair(Resolve(AllPairs[i].encrypted), Resolve(AllPairs[i].decrypted)) :
       i \in 1..Len(AllPairs)}

-----------------------------------------------------------------------------
-----------------------------------------------------------------------------
(* The tree of the documentation's example and its pairs.                  *)
ExampleTree == {<<dSE, fShortAsc>>, <<fLongAscB>>}

ExamplePairs == << Pair(<<dSE, fShortAsc>>, <<dS, <<"a", Dec, "json">>>>),
                   Pair(<<fLongAscB>>, << <<"b", Dec, "json">> >>) >>

(* C2: a file beneath a marked directory is paired through the directory   *)
(* rule only: it is among the directory pairs and never among the          *)
(* standalone pairs, even when its own name carries the marker.  The tree  *)
(* of secrets.encrypted/a.json.asc and b.encrypted.json.asc yields exactly *)
(* its two pairs, the directory pair first.                                *)
C2_DirectoryPrecedence ==
    Scanned =>
      /\ \A i \in 1..Len(scan.filePairs) :
           MarkedAbove(Resolve(scan.filePairs[i].encrypted)) = {}
      /\ \A f \in files :
           MarkedAbove(f) # {}
             => \E i \in 1..Len(scan.dirPairs) :
                  Resolve(scan.dirPairs[i].encrypted) = f
      /\ files = ExampleTree
           => /\ Len(AllPairs) = 2
              /\ \A i \in 1..2 :
                   Pair(Resolve(AllPairs[i].encrypted),
                        Resolve(AllPairs[i].decrypted)) = ExamplePairs[i]

C2_Witness ==
    /\ pc = "ready"
    /\ files = {<<dSE, fLongGpgA>>, <<fLongAscB>>}
    /\ Len(scan.dirPairs) = 1
    /\ Len(scan.filePairs) = 1

-----------------------------------------------------------------------------
(* What the scan discovers, and the extensions a Secret does not accept.   *)
Candidate(f) == IsMarked(Last(f)) \/ MarkedAbove(f) # {}

Unrecognized(f) == Len(Last(f)) < 2 \/ Last(Last(f)) \notin Formats

(* C3: when any candidate of the scan (a marked file, or any file beneath  *)
(* a marked directory) has a final extension other than .asc and .gpg, the *)
(* invocation fails with the validation error and holds no registry.       *)
C3_AllOrNothing ==
    (Scanned /\ \E f \in files : Candidate(f) /\ Unrecognized(f))
      => /\ pc = "failed"
         /\ outcome.kind = "raised"
         /\ outcome.msg = MsgValidation
         /\ Len(outcome.paths) = 1
         /\ Candidate(outcome.paths[1]) /\ Unrecognized(outcome.paths[1])
         /\ secrets = <<>>
         /\ guard.runs = 0

C3_Witness ==
    /\ pc = "failed"
    /\ outcome.msg = MsgValidation
    /\ secrets = <<>>
    /\ \E f \in files : Candidate(f) /\ ~Unrecognized(f)

-----------------------------------------------------------------------------
(* C4: with P the decrypted paths of the registry and E the paths git      *)
(* reports ignored, the guard succeeds iff P \ E is empty; otherwise it    *)
(* raises one error that lists exactly the paths of P \ E, each once, in   *)
(* sorted order.                                                           *)
C4_GuardAggregates ==
    guard.runs > 0 =>
      LET violations == guard.P \ guard.E
      IN  /\ (violations = {}) <=> (guard.errors = <<>>)
          /\ (violations = {}) <=> (pc # "failed")
          /\ pc = "ready" => guard.P = Plaintexts
          /\ violations # {}
               => /\ Len(guard.errors) = 1
                  /\ Range(guard.errors[1]) = violations
                  /\ Len(guard.errors[1]) = Cardinality(violations)
                  /\ \A i, j \in 1..Len(guard.errors[1]) :
                       i < j => StrLess(guard.errors[1][i], guard.errors[1][j])
                  /\ outcome = Raised("FideliusException", MsgIgnore, guard.errors[1])

C4_Witness ==
    /\ pc = "failed"
    /\ Len(guard.errors) = 1
    /\ Len(guard.errors[1]) = 1
    /\ guard.P \cap guard.E # {}

-----------------------------------------------------------------------------
(* C5: a step into or out of a state in which the guard has failed changes *)
(* no file, calls no gateway operation and runs no subcommand: the guard's *)
(* failure ends the invocation.                                            *)
C5_GuardBlocks ==
    [][ (guard.errors # <<>> \/ guard'.errors # <<>>)
          => /\ files' = files /\ dirs' = dirs /\ data' = data
             /\ gpgCalls' = <<>>
             /\ cmd' = NoCmd
             /\ pc' \in {"failed", "idle"} ]_vars

C5_Witness ==
    /\ pc = "failed"
    /\ guard.errors # <<>>
    /\ guard.runs = 1
    /\ files # {}

-----------------------------------------------------------------------------
(* C6: after 'decrypt' without arguments (every gateway call succeeding)   *)
(* the decrypted path of every Secret exists; after a following 'clean'    *)
(* no decrypted path exists and every encrypted file is still there.       *)
C6_DecryptThenClean ==
    /\ (pc = "done" /\ cmd.name = "decrypt" /\ cmd.args = <<>>
          /\ outcome.exc # "CalledProcessError")
         => \A i \in 1..Len(secrets) : secrets[i].decrypted \in files
    /\ (pc = "done" /\ cmd.name = "clean" /\ prev.name = "decrypt")
         => \A i \in 1..Len(secrets) :
              secrets[i].decrypted \notin files /\ secrets[i].encrypted \in files

-----------------------------------------------------------------------------
(* The gateway's encrypt operations called so far in this invocation.      *)
EncryptCalls ==
    SelectSeq(gpgCalls, LAMBDA c : c.op \in {"encrypt_text", "encrypt_file"})

(* C7: 'edit' calls no encrypt operation and leaves the ciphertext as it   *)
(* was when the editor returns nothing or an empty text (empty-file error) *)
(* or the old text (no-changes error); otherwise it calls encrypt_text     *)
(* exactly once, for the secret's encrypted path and the new text.         *)
C7_EditNoOp ==
    (pc = "done" /\ cmd.name = "edit" /\ cmd.out # <<>>) =>
      LET secret == cmd.out[1]
          old    == cmd.out[2]
          new    == cmd.text
      IN  /\ new \in {Nothing, ""}
               => /\ EncryptCalls = <<>>
                  /\ data[secret.encrypted] = Cipher(old)
                  /\ outcome = Raised("ClickException", MsgEmpty, <<>>)
          /\ (new \notin {Nothing, ""} /\ new = old)
               => /\ EncryptCalls = <<>>
                  /\ data[secret.encrypted] = Cipher(old)
                  /\ outcome = Raised("ClickException", MsgNoChanges, <<>>)
          /\ (new \notin {Nothing, ""} /\ new # old)
               => /\ Len(EncryptCalls) = 1
                  /\ EncryptCalls[1].op = "encrypt_text"
                  /\ EncryptCalls[1].path = secret.encrypted
                  /\ EncryptCalls[1].text = new

C7_Witness ==
    /\ pc = "done"
    /\ cmd.name = "edit"
    /\ cmd.out # <<>>
    /\ cmd.text = cmd.out[2]
    /\ outcome.msg = MsgNoChanges
    /\ Len(gpgCalls) = 1

-----------------------------------------------------------------------------
(* A failure click reports with a message: a ClickException.               *)
Described(o) ==
    o.kind = "raised" /\ o.exc \in {"ClickException", "FideliusException"}

(* C8: lookup of a path returns the Secret whose key is the resolved path  *)
(* when there is one, and otherwise ends the command in a described        *)
(* failure (a click exception: message and non-zero exit).                 *)
C8_LookupFailureDescribed ==
    (pc = "done" /\ cmd.name = "cat") =>
      IF Resolve(cmd.args[1]) \in Keys
      THEN /\ outcome.exc # "KeyError"
           /\ cmd.out # <<>> => /\ cmd.out[1].encrypted = Resolve(cmd.args[1])
                                /\ cmd.out[1] \in Range(secrets)
      ELSE Described(outcome)

-----------------------------------------------------------------------------
(* C9: iterating the registry yields every Secret once, in ascending order *)
(* of encrypted path whatever the order of the scan, and a second listing  *)
(* of an unchanged tree is the same sequence.                              *)
C9_SortedIteration ==
    (pc = "done" /\ cmd.name = "ls") =>
      /\ Len(listing) = Len(secrets)
      /\ Range(listing) = Range(secrets)
      /\ \A i, j \in 1..Len(listing) :
           i < j => PathLess(listing[i].encrypted, listing[j].encrypted)
      /\ (prev.name = "ls" /\ prev.files = files /\ prev.dirs = dirs)
           => listing = prev.listing

C9_Witness ==
    /\ pc = "done"
    /\ cmd.name = "ls"
    /\ prev.name = "ls"
    /\ Len(listing) = 2
    /\ listing[1] = secrets[2]

-----------------------------------------------------------------------------
(* C10 as stated: every Secret of the registry is returned by lookup with  *)
(* its encrypted path and by lookup with its decrypted path.               *)
C10_EitherPath ==
    pc = "ready" =>
      \A i \in 1..Len(secrets) :
        /\ getitem(secrets, Abs(secrets[i].encrypted)) = secrets[i]
        /\ getitem(secrets, Abs(secrets[i].decrypted)) = secrets[i]

(* C10 as amended: every Secret of the registry is returned by lookup with *)
(* its encrypted path, in any spelling, and lookup with its decrypted path *)
(* never returns it; 'cat' of a decrypted path that is no key ends in      *)
(* KeyError.                                                               *)
C10_EncryptedPathOnly ==
    /\ pc = "ready" =>
         \A i \in 1..Len(secrets) :
           /\ \A p \in Spellings({secrets[i].encrypted}) :
                getitem(secrets, p) = secrets[i]
           /\ \A p \in Spellings({secrets[i].decrypted}) :
                getitem(secrets, p) # secrets[i]
    /\ (pc = "done" /\ cmd.name = "cat")
         => /\ Resolve(cmd.args[1]) \in Keys
                 => /\ outcome = Ok
                    /\ cmd.out[1].encrypted = Resolve(cmd.args[1])
                    /\ cmd.out[1] \in Range(secrets)
            /\ Resolve(cmd.args[1]) \in Plaintexts \ Keys
                 => outcome.exc = "KeyError"

C10_Witness ==
    /\ pc = "done"
    /\ cmd.name = "cat"
    /\ ~cmd.args[1].abs
    /\ Resolve(cmd.args[1]) \in Plaintexts
    /\ outcome.exc = "KeyError"

-----------------------------------------------------------------------------
(* A target path of a documented form: D.encrypted/N.E.X,                  *)
(* D.encrypted/N.encrypted.E.X or N.encrypted.E.X.                         *)
Documented(t) ==
    LongForm(Last(t)) \/ (ShortForm(Last(t)) /\ MarkedAbove(t) # {})

(* C11: 'create' with a target of a documented form calls the encrypt      *)
(* gateway exactly once, with the target as output and armour exactly when *)
(* the target ends in .asc: encrypt_file of the plaintext file when one is *)
(* given, else encrypt_text of the editor's non-empty text.  Any other     *)
(* target, or an empty edited text, is a described failure with no gateway *)
(* call.                                                                   *)
C11_CreateContract ==
    (pc = "done" /\ cmd.name = "create") =>
      LET target    == Resolve(cmd.args[1])
          plaintext == cmd.out[1]
          accepted  == /\ Documented(target)
                       /\ plaintext # <<>> \/ cmd.text \notin {Nothing, ""}
      IN  /\ accepted
               => /\ Len(gpgCalls) = 1
                  /\ gpgCalls[1].output = target
                  /\ gpgCalls[1].armour = (Last(Last(target)) = "asc")
                  /\ IF plaintext # <<>>
                     THEN /\ gpgCalls[1].op = "encrypt_file"
                          /\ gpgCalls[1].path = plaintext
                     ELSE /\ gpgCalls[1].op = "encrypt_text"
                          /\ gpgCalls[1].text = cmd.text
          /\ ~accepted
               => /\ gpgCalls = <<>>
                  /\ Described(outcome)

-----------------------------------------------------------------------------
(* C12: 'encrypt' handles its arguments in order.  For an argument whose   *)
(* secret has no plaintext file it reports so and calls no encrypt; without *)
(* force, for one whose plaintext equals what the encrypted file decrypts  *)
(* to, it calls no encrypt and leaves the ciphertext as it was; otherwise  *)
(* it re-encrypts the secret once, from its plaintext.  With every         *)
(* argument a managed secret the command handles all of them and ends      *)
(* without error.                                                          *)
C12_EncryptEach ==
    [][ (pc = "ready" /\ cmd'.name = "encrypt"
         /\ \A i \in 1..Len(cmd'.args) : Resolve(cmd'.args[i]) \in Keys) =>
        LET args    == cmd'.args
            force   == cmd'.text = Force
            sec(i)  == CHOOSE k \in 1..Len(secrets) :
                         secrets[k].encrypted = Resolve(args[i])
            enc(i)  == secrets[sec(i)].encrypted
            dec(i)  == secrets[sec(i)].decrypted
            due(i)  == /\ dec(i) \in files
                       /\ \/ force
                          \/ /\ data[dec(i)].text # data[enc(i)].text
                             /\ \A j \in 1..(i - 1) : enc(j) # enc(i)
            order   == SelectSeq([i \in 1..Len(args) |-> i], LAMBDA i : due(i))
            calls   == SelectSeq(gpgCalls', LAMBDA c :
                                   c.op \in {"encrypt_text", "encrypt_file"})
        IN  /\ outcome' = Ok
            /\ Len(cmd'.out) = Len(args)
            /\ \A i \in 1..Len(args) :
                 /\ dec(i) \notin files => cmd'.out[i] = "missing"
                 /\ due(i) <=> cmd'.out[i] = "encrypted"
                 /\ (\A j \in 1..Len(args) : enc(j) = enc(i) => ~due(j))
                      => data'[enc(i)] = data[enc(i)]
                 /\ due(i) => data'[enc(i)] = Cipher(data[dec(i)].text)
            /\ Len(calls) = Len(order)
            /\ \A k \in 1..Len(order) :
                 /\ calls[k].op = "encrypt_file"
                 /\ calls[k].output = enc(order[k])
                 /\ calls[k].path = dec(order[k])
            /\ files' = files
      ]_vars

C12_Witness ==
    /\ pc = "done"
    /\ cmd.name = "encrypt"
    /\ cmd.out = <<"missing", "encrypted">>
    /\ Len(gpgCalls) = 1
    /\ outcome = Ok

-----------------------------------------------------------------------------
(* C13: no two Secrets of a built registry share a decrypted path, and a   *)
(* 'decrypt' of everything writes no plaintext file twice.                 *)
C13_Injective ==
    /\ pc = "ready" =>
         \A i, j \in 1..Len(secrets) :
           secrets[i].decrypted = secrets[j].decrypted => i = j
    /\ (pc = "done" /\ cmd.name = "decrypt" /\ cmd.args = <<>>) =>
         \A i, j \in 1..Len(gpgCalls) :
           (/\ gpgCalls[i].op = "decrypt"
            /\ gpgCalls[j].op = "decrypt"
            /\ gpgCalls[i].output = gpgCalls[j].output) => i = j

-----------------------------------------------------------------------------
(* The scan that follows a 'decrypt' of everything that ended without      *)
(* error, the tree being as that command left it.                          *)
Rescanned ==
    Scanned /\ prev.name = "decrypt" /\ prev.files = files /\ prev.dirs = dirs

C14_PlainOutside ==
    pc = "ready" =>
      \A i \in 1..Len(secrets) :
        /\ MarkedAbove(secrets[i].decrypted) = {}
        /\ ~IsMarked(Last(secrets[i].decrypted))

C14_SinglePair ==
    Scanned =>
      \A p, q \in ResolvedPairs : p.encrypted = q.encrypted => p = q

C14_Rescan ==
    Rescanned =>
      /\ outcome.msg # MsgValidation
      /\ pc = "ready" => Range(secrets) = prev.pairs

(* C14: no decrypted path of the registry lies beneath a marked directory  *)
(* or carries the marker in its name; every encrypted file contributes one *)
(* pair to the scan; and the scan that follows a successful 'decrypt' of   *)
(* everything builds, with the pairs the registry had before.              *)
C14_ScanStable == C14_PlainOutside /\ C14_SinglePair /\ C14_Rescan

====
